---- MODULE Spec2Model ----
(***************************************************************************)
(* TFIDFTextEncoder (tfidf_text_executor.py): an executor that loads a     *)
(* fitted tf-idf vectorizer from a pickle file and, per request, writes    *)
(* the vectorizer's output for each document's text into doc.embedding,    *)
(* batch by batch.                                                         *)
(***************************************************************************)
EXTENDS Integers, Sequences, FiniteSets, TLC

\* ------------------------------------------------------------------ bounds
\* largest number of root documents of one request
MaxDocs == 3
\* largest batch size tried (the smallest is -1, so 0 and a negative are covered)
MaxBatch == 2

\* ------------------------------------------------------- values and helpers
\* Python's None where a string is expected (doc.text)
None == "<None>"
\* doc.embedding of a document that has none: rows are pairs, so None is <<>>
NoEmbedding == << >>
\* an empty dict / an object without attributes
EmptyDict == [k \in {} |-> 0]

Min(a, b) == IF a < b THEN a ELSE b
Max(a, b) == IF a > b THEN a ELSE b

RECURSIVE Flatten(_)
Flatten(ss) == IF ss = << >> THEN << >> ELSE Head(ss) \o Flatten(Tail(ss))

\* ---------------------------------------------------------- the file system
\* The paths a constructor call may name.  Two hold a pickled vectorizer, one
\* exists but is a directory (open() fails on it), one does not exist.
Paths == {"model/tfidf_vectorizer.pickle", "other.pickle", "model", "missing.pickle"}
Pickles == [p \in {"model/tfidf_vectorizer.pickle", "other.pickle"} |->
              IF p = "other.pickle" THEN "V2" ELSE "V1"]
ExistingPaths == DOMAIN Pickles \cup {"model"}

\* os.path.exists(path)
PathExists(p) == p \in ExistingPaths
\* pickle.load(open(path, 'rb')) returns an object (does not raise)
CanLoad(p) == p \in DOMAIN Pickles
\* the object pickle.load(open(path, 'rb')) returns
PickleLoad(p) == Pickles[p]

\* ------------------------------------------------------------ the documents
\* Root documents are 1..MaxDocs; document 1 has one chunk, the others none.
ChunkDoc == MaxDocs + 1
DocIds == 1 .. (MaxDocs + 1)
Chunks(d) == IF d = 1 THEN << ChunkDoc >> ELSE << >>
Texts == {"", "a"}
TraversalPaths == {"r", "c"}
BatchSizes == (0 - 1) .. MaxBatch
\* the default_batch_size values a constructor call is tried with
DefaultBatchSizes == {MaxBatch}

\* docs.traverse_flat(traversal_path): 'r' the documents themselves, 'c' their
\* chunks, in document order
traverse_flat(ds, path) ==
  IF path = "r" THEN ds
  ELSE Flatten([j \in 1 .. Len(ds) |-> Chunks(ds[j])])

\* ----------------------------------------------------------- the vectorizer
\* One row of tfidf_vectorizer.transform: the output of vectorizer v for text t
Row(v, t) == << v, t >>
\* a transform whose rows depend on the batch: every row is computed from the
\* first text of the batch
transformFirstText(v, texts) == [j \in 1 .. Len(texts) |-> << v, texts[1] >>]

\* tfidf_vectorizer.transform(iterable_of_texts): one row per text, in order
transform(v, texts) == [j \in 1 .. Len(texts) |-> Row(v, texts[j])]

\* --------------------------------------------------------- _batch_generator
\* range(start, stop, step) for step # 0, as the sequence of its values
PyRange(start, stop, step) ==
  LET n == IF step > 0
             THEN (IF stop > start THEN ((stop - start) + (step - 1)) \div step ELSE 0)
             ELSE (IF stop < start THEN ((start - stop) + ((0 - step) - 1)) \div (0 - step) ELSE 0)
  IN [j \in 1 .. n |-> start + (j - 1) * step]

\* Python's normalisation of one bound of a slice over a sequence of length n
SliceBound(x, n) == IF x < 0 THEN Max(x + n, 0) ELSE Min(x, n)
\* data[lo : hi]
PySlice(data, lo, hi) ==
  LET l == SliceBound(lo, Len(data))
      h == SliceBound(hi, Len(data))
  IN IF h <= l THEN << >> ELSE SubSeq(data, l + 1, h)

\* a range that accepts a step of 0
RangeNeverRaises(batch_size) == FALSE

\* range(0, len(data), batch_size) raises ValueError
RangeRaises(batch_size) == batch_size = 0

\* a generator whose slices are one element short: data[i : i + batch_size - 1]
batch_generator_short(data, batch_size) ==
  LET r == PyRange(0, Len(data), batch_size)
  IN [j \in 1 .. Len(r) |-> PySlice(data, r[j], (r[j] + batch_size) - 1)]

\* a generator whose range runs one past the end: range(0, len(data) + 1, batch_size)
batch_generator_extra(data, batch_size) ==
  LET r == PyRange(0, Len(data) + 1, batch_size)
  IN [j \in 1 .. Len(r) |-> PySlice(data, r[j], r[j] + batch_size)]

\* the batches _batch_generator(data, batch_size) yields, in order (batch_size # 0)
\* (the name without its leading underscore, which TLA+ does not allow first)
batch_generator(data, batch_size) ==
  LET r == PyRange(0, Len(data), batch_size)
  IN [j \in 1 .. Len(r) |-> PySlice(data, r[j], r[j] + batch_size)]

\* -------------------------------------------------------------------- state
VARIABLES
  constructed,    \* "no": __init__ not called; "yes": it returned; "raised": it raised
  init_raised,    \* the exception __init__ raised, "" when none
  self,           \* the attributes __init__ set on the encoder (a dict: name -> value)
  docs_given,     \* FALSE when the docs argument of encode is None
  docs,           \* the documents of the DocumentArray, in order (root ids)
  text,           \* doc.text of every document (None when it has none)
  embedding,      \* doc.embedding of every document (NoEmbedding when it has none)
  pc,             \* "idle", "loop" (inside _create_embeddings), "returned", "raised"
  encode_raised,  \* the exception the running or last encode raised, "" when none
  parameters,     \* the parameters dict of the running or last encode
  locals,         \* traversal_path and batch_size as _get_input_data_generator resolved them
  filtered_docs,  \* the DocumentArray handed to _batch_generator
  yielded,        \* the batches the generator yielded so far, in order
  calls,          \* the arguments of the calls of transform so far, in order
  embBefore       \* embedding as it was when the running or last encode was called

vars == << constructed, init_raised, self, docs_given, docs, text, embedding, pc,
           encode_raised, parameters, locals, filtered_docs, yielded, calls, embBefore >>

encoderVars == << constructed, init_raised, self >>
docVars == << docs_given, docs, text >>
requestVars == << pc, encode_raised, parameters, locals, filtered_docs, yielded, calls,
                  embBefore >>

\* a dict with the given optional entries: parameters of a request
ParameterDicts ==
  { EmptyDict } \cup
  { [batch_size |-> b] : b \in BatchSizes } \cup
  { [traversal_path |-> p] : p \in TraversalPaths } \cup
  { [batch_size |-> b, traversal_path |-> p] : b \in BatchSizes, p \in TraversalPaths }

\* dict.get(key, default)
DictGet(d, key, default) == IF key \in DOMAIN d THEN d[key] ELSE default

\* the documents that exist when the request holds the roots 1..k
Existing(k) == IF k = 0 THEN {} ELSE (1 .. k) \cup { ChunkDoc }

Init ==
  /\ constructed = "no"
  /\ init_raised = ""
  /\ self = EmptyDict
  /\ docs_given = FALSE
  /\ docs = << >>
  /\ text = [d \in DocIds |-> None]
  /\ embedding = [d \in DocIds |-> NoEmbedding]
  /\ pc = "idle"
  /\ encode_raised = ""
  /\ parameters = EmptyDict
  /\ locals = EmptyDict
  /\ filtered_docs = << >>
  /\ yielded = << >>
  /\ calls = << >>
  /\ embBefore = [d \in DocIds |-> NoEmbedding]

\* ----------------------------------------------------------------- __init__
\* the three attribute assignments that precede the existence check
InitAttributes(path_vectorizer, default_batch_size, default_traversal_path) ==
  [path_vectorizer |-> path_vectorizer,
   default_batch_size |-> default_batch_size,
   default_traversal_path |-> default_traversal_path]

\* an __init__ without the existence check: it always tries to load
InitOutcomeNoCheck(path_vectorizer, default_batch_size, default_traversal_path) ==
  LET attrs == InitAttributes(path_vectorizer, default_batch_size, default_traversal_path)
  IN IF CanLoad(path_vectorizer)
       THEN [attrs |-> [path_vectorizer |-> path_vectorizer,
                        default_batch_size |-> default_batch_size,
                        default_traversal_path |-> default_traversal_path,
                        tfidf_vectorizer |-> PickleLoad(path_vectorizer)],
             raised |-> ""]
       ELSE [attrs |-> attrs, raised |-> "LoadError"]

\* the outcome of the if/else on os.path.exists and of the load: the attributes
\* of the encoder and the exception raised ("" when __init__ returns)
InitOutcome(path_vectorizer, default_batch_size, default_traversal_path) ==
  LET attrs == InitAttributes(path_vectorizer, default_batch_size, default_traversal_path)
  IN IF PathExists(path_vectorizer)
       THEN IF CanLoad(path_vectorizer)
              THEN [attrs |-> [path_vectorizer |-> path_vectorizer,
                               default_batch_size |-> default_batch_size,
                               default_traversal_path |-> default_traversal_path,
                               tfidf_vectorizer |-> PickleLoad(path_vectorizer)],
                    raised |-> ""]
              ELSE [attrs |-> attrs, raised |-> "LoadError"]
       ELSE [attrs |-> attrs, raised |-> "PretrainedModelFileDoesNotExist"]

Construct(path_vectorizer, default_batch_size, default_traversal_path) ==
  /\ constructed = "no"
  /\ LET out == InitOutcome(path_vectorizer, default_batch_size, default_traversal_path)
     IN /\ self' = out.attrs
        /\ init_raised' = out.raised
        /\ constructed' = IF out.raised = "" THEN "yes" ELSE "raised"
  /\ UNCHANGED << docVars, embedding, requestVars >>

\* ------------------------------------------------- the caller builds a request
\* The caller, who so far passed None as docs, builds the DocumentArray of its
\* requests: k fresh root documents (k = 0: an empty DocumentArray)
NewDocs(k, txt) ==
  /\ constructed = "yes"
  /\ pc # "loop"
  /\ ~ docs_given
  /\ \A d \in DocIds : d \notin Existing(k) => txt[d] = None
  /\ docs_given' = TRUE
  /\ docs' = [j \in 1 .. k |-> j]
  /\ text' = txt
  /\ embedding' = [d \in DocIds |-> NoEmbedding]
  /\ pc' = "idle"
  /\ encode_raised' = ""
  /\ parameters' = EmptyDict
  /\ locals' = EmptyDict
  /\ filtered_docs' = << >>
  /\ yielded' = << >>
  /\ calls' = << >>
  /\ embBefore' = [d \in DocIds |-> NoEmbedding]
  /\ UNCHANGED encoderVars

\* ------------------------------------------------------------------- encode
\* `if docs is not None:` : an empty DocumentArray passes the test
TruthyNotNone(given, ds) == given

\* `if docs:` : a DocumentArray is truthy when it is not None and not empty
Truthy(given, ds) == given /\ Len(ds) > 0

\* the request's values are used only when the request carries both
ResolveParametersCoupled(params, enc) ==
  IF DOMAIN params = {"traversal_path", "batch_size"}
    THEN [traversal_path |-> params.traversal_path, batch_size |-> params.batch_size]
    ELSE [traversal_path |-> enc.default_traversal_path,
          batch_size |-> enc.default_batch_size]

\* traversal_path and batch_size as _get_input_data_generator reads them
ResolveParameters(params, enc) ==
  [traversal_path |-> DictGet(params, "traversal_path", enc.default_traversal_path),
   batch_size |-> DictGet(params, "batch_size", enc.default_batch_size)]

\* no filter: every traversed document is kept
FilterDocsKeepAll(flat_docs, txt) == flat_docs

\* [doc for doc in flat_docs if doc.text is not None]
FilterDocs(flat_docs, txt) ==
  SelectSeq(flat_docs, LAMBDA d : txt[d] # None)

\* the documents _get_input_data_generator hands to _batch_generator
InputData(ds, txt, traversal_path) ==
  FilterDocs(traverse_flat(ds, traversal_path), txt)

\* the rows are assigned in reverse: the j-th document gets the j-th row from the end
AssignRowsReversed(emb, document_batch, embedding_matrix) ==
  LET n == Min(Len(document_batch), Len(embedding_matrix))
  IN [d \in DocIds |->
        IF \E j \in 1 .. n : document_batch[j] = d
          THEN embedding_matrix[(n + 1) - (CHOOSE j \in 1 .. n : document_batch[j] = d)]
          ELSE emb[d]]

\* the embeddings are rebuilt from the batch: a document outside it loses its own
AssignRowsClearsOthers(emb, document_batch, embedding_matrix) ==
  LET n == Min(Len(document_batch), Len(embedding_matrix))
  IN [d \in DocIds |->
        IF \E j \in 1 .. n : document_batch[j] = d
          THEN embedding_matrix[CHOOSE j \in 1 .. n : document_batch[j] = d]
          ELSE NoEmbedding]

\* for doc, doc_embedding in zip(document_batch, embedding_matrix):
\*     doc.embedding = doc_embedding
AssignRows(emb, document_batch, embedding_matrix) ==
  LET n == Min(Len(document_batch), Len(embedding_matrix))
  IN [d \in DocIds |->
        IF \E j \in 1 .. n : document_batch[j] = d
          THEN embedding_matrix[CHOOSE j \in 1 .. n :
                                  /\ document_batch[j] = d
                                  /\ \A m \in (j + 1) .. n : document_batch[m] # d]
          ELSE emb[d]]

\* [d.text for d in document_batch]
TextsOf(document_batch, txt) == [j \in 1 .. Len(document_batch) |-> txt[document_batch[j]]]

\* one iteration of the loop of _create_embeddings on one batch
EmbedBatch(emb, document_batch, txt, v) ==
  AssignRows(emb, document_batch, transform(v, TextsOf(document_batch, txt)))

\* the loop of _create_embeddings over the batches, from embeddings emb
RECURSIVE CreateEmbeddings(_, _, _, _)
CreateEmbeddings(emb, batches, txt, v) ==
  IF batches = << >> THEN emb
  ELSE CreateEmbeddings(EmbedBatch(emb, Head(batches), txt, v), Tail(batches), txt, v)

\* the embeddings a whole encode that returns leaves, from embeddings emb
\* (batch_size # 0, docs truthy)
EncodeResult(emb, ds, txt, traversal_path, batch_size, v) ==
  CreateEmbeddings(emb, batch_generator(InputData(ds, txt, traversal_path), batch_size),
                   txt, v)

\* encode is called: the `if docs:` test and _get_input_data_generator, which
\* creates the generator without running it
Encode(params) ==
  /\ constructed = "yes"
  /\ pc # "loop"
  /\ parameters' = params
  /\ embBefore' = embedding
  /\ encode_raised' = ""
  /\ yielded' = << >>
  /\ calls' = << >>
  /\ IF Truthy(docs_given, docs)
       THEN /\ locals' = ResolveParameters(params, self)
            /\ filtered_docs' = InputData(docs, text, locals'.traversal_path)
            /\ pc' = "loop"
       ELSE /\ locals' = EmptyDict
            /\ filtered_docs' = << >>
            /\ pc' = "returned"
  /\ UNCHANGED << encoderVars, docVars, embedding >>

\* the for statement asks the generator for its first batch and range() raises
GeneratorRaises ==
  /\ pc = "loop"
  /\ RangeRaises(locals.batch_size)
  /\ pc' = "raised"
  /\ encode_raised' = "ValueError"
  /\ UNCHANGED << encoderVars, docVars, embedding, parameters, locals, filtered_docs,
                  yielded, calls, embBefore >>

\* the generator yields its next batch and the loop body runs on it
ProcessBatch ==
  /\ pc = "loop"
  /\ ~ RangeRaises(locals.batch_size)
  /\ LET batches == batch_generator(filtered_docs, locals.batch_size)
         k == Len(yielded)
     IN /\ k < Len(batches)
        /\ yielded' = Append(yielded, batches[k + 1])
        /\ calls' = Append(calls, TextsOf(batches[k + 1], text))
        /\ embedding' = EmbedBatch(embedding, batches[k + 1], text, self.tfidf_vectorizer)
  /\ UNCHANGED << encoderVars, docVars, pc, encode_raised, parameters, locals,
                  filtered_docs, embBefore >>

\* the generator is exhausted: _create_embeddings and encode return
LoopEnds ==
  /\ pc = "loop"
  /\ ~ RangeRaises(locals.batch_size)
  /\ Len(yielded) >= Len(batch_generator(filtered_docs, locals.batch_size))
  /\ pc' = "returned"
  /\ UNCHANGED << encoderVars, docVars, embedding, encode_raised, parameters, locals,
                  filtered_docs, yielded, calls, embBefore >>

Next ==
  \/ \E p \in Paths, b \in DefaultBatchSizes, t \in TraversalPaths : Construct(p, b, t)
  \/ \E k \in 0 .. MaxDocs, txt \in [DocIds -> Texts \cup {None}] : NewDocs(k, txt)
  \/ \E params \in ParameterDicts : Encode(params)
  \/ GeneratorRaises
  \/ ProcessBatch
  \/ LoopEnds

Spec == Init /\ [][Next]_vars

\* ------------------------------------------------------------------- claims
\* an encode ran past its `if docs:` test: its parameters were resolved
Running == pc \in {"loop", "returned", "raised"} /\ DOMAIN locals # {}
\* the documents the traversal path of the running or last encode selects
Selected == traverse_flat(docs, locals.traversal_path)
SeqSet(sq) == { sq[j] : j \in 1 .. Len(sq) }
\* how often document d occurs in the batches yielded
TimesYielded(d) ==
  Cardinality({ << b, j >> \in (1 .. Len(yielded)) \X (1 .. (MaxDocs + 1)) :
                  j <= Len(yielded[b]) /\ yielded[b][j] = d })
\* encode returned after its loop, with a batch size >= 1
ReturnedPositive == Running /\ pc = "returned" /\ locals.batch_size >= 1

\* C1: after encode returns with batch_size >= 1, every selected document with
\* text has as embedding the vectorizer's output for its own text, and within
\* each batch the i-th document holds the i-th row of transform(texts of the batch).
C1_OwnTextEmbedding ==
  ReturnedPositive =>
    /\ \A d \in SeqSet(Selected) :
         text[d] # None => embedding[d] = << self.tfidf_vectorizer, text[d] >>
    /\ \A b \in 1 .. Len(yielded) : \A j \in 1 .. Len(yielded[b]) :
         embedding[yielded[b][j]] = transform(self.tfidf_vectorizer, calls[b])[j]

\* C1 witness: an encode returned after two batches, the first holding two
\* documents with different texts
C1_Witness ==
  /\ ReturnedPositive
  /\ Len(yielded) >= 2
  /\ Len(yielded[1]) = 2
  /\ text[yielded[1][1]] # text[yielded[1][2]]

\* C2: a document without text is never passed to transform and keeps the
\* embedding it had when encode was called, whatever else the request holds.
C2_NoTextSkipped ==
  /\ \A d \in DocIds :
       text[d] = None => (embedding[d] = embBefore[d] /\ TimesYielded(d) = 0)
  /\ \A b \in 1 .. Len(calls) : \A j \in 1 .. Len(calls[b]) : calls[b][j] # None

\* C2 witness: an encode returned that selected a document without text between
\* documents with text, which were embedded
C2_Witness ==
  /\ ReturnedPositive
  /\ \E d \in SeqSet(Selected) : text[d] = None
  /\ \E d \in SeqSet(Selected) : text[d] # None /\ embedding[d] # NoEmbedding
  /\ Len(calls) >= 1

\* a load was done: the encoder holds a vectorizer
VectorizerLoaded == "tfidf_vectorizer" \in DOMAIN self

\* C3 as stated: the existence of the path alone decides between the two
\* outcomes: an existing path gives an encoder whose vectorizer is the one in
\* that file, a missing path gives PretrainedModelFileDoesNotExist and no vectorizer.
C3_ExistenceAloneDecides ==
  constructed # "no" =>
    IF self.path_vectorizer \in ExistingPaths
      THEN /\ constructed = "yes"
           /\ VectorizerLoaded
           /\ self.tfidf_vectorizer = Pickles[self.path_vectorizer]
      ELSE /\ constructed = "raised"
           /\ init_raised = "PretrainedModelFileDoesNotExist"
           /\ ~ VectorizerLoaded

\* C3 amended: a missing path raises PretrainedModelFileDoesNotExist; an existing
\* path that open and pickle.load accept gives an encoder holding the object of
\* that file; an existing path they reject makes __init__ fail with their error;
\* whenever __init__ raises, no vectorizer is loaded and no encode ever runs.
C3_ExistenceCheckThenLoad ==
  /\ constructed # "no" =>
       IF self.path_vectorizer \notin ExistingPaths
         THEN constructed = "raised" /\ init_raised = "PretrainedModelFileDoesNotExist"
         ELSE IF self.path_vectorizer \in DOMAIN Pickles
                THEN /\ constructed = "yes"
                     /\ init_raised = ""
                     /\ VectorizerLoaded
                     /\ self.tfidf_vectorizer = Pickles[self.path_vectorizer]
                ELSE constructed = "raised" /\ init_raised = "LoadError"
  /\ constructed # "yes" =>
       /\ ~ VectorizerLoaded
       /\ pc = "idle" /\ parameters = EmptyDict /\ calls = << >>
       /\ embedding = [d \in DocIds |-> NoEmbedding]

\* C3 witness: a constructor call named the existing path that is no pickle
\* file, and raised the error of the load
C3_Witness ==
  /\ constructed = "raised"
  /\ self.path_vectorizer \in ExistingPaths
  /\ init_raised = "LoadError"
  /\ ~ VectorizerLoaded

\* the values a request's parameters and the constructor's defaults give
ExpectedBatchSize ==
  IF "batch_size" \in DOMAIN parameters THEN parameters.batch_size
  ELSE self.default_batch_size
ExpectedTraversalPath ==
  IF "traversal_path" \in DOMAIN parameters THEN parameters.traversal_path
  ELSE self.default_traversal_path
IsPrefix(p, q) == Len(p) <= Len(q) /\ \A j \in 1 .. Len(p) : p[j] = q[j]

C5_BatchesPartition ==
  ReturnedPositive =>
    LET n == Len(filtered_docs)
        bs == locals.batch_size
    IN /\ Flatten(yielded) = filtered_docs
       /\ Len(yielded) = (n + (bs - 1)) \div bs
       /\ \A b \in 1 .. Len(yielded) :
            /\ Len(yielded[b]) >= 1
            /\ Len(yielded[b]) <= bs
            /\ (b < Len(yielded) => Len(yielded[b]) = bs)

\* C5 witness: a list of three documents was split with batch size 2 into a full
\* batch and a shorter last one
C5_Witness ==
  /\ ReturnedPositive
  /\ locals.batch_size = 2
  /\ Len(filtered_docs) = 3
  /\ Len(yielded) = 2
  /\ Len(yielded[2]) = 1

\* C6: during an encode with batch_size >= 1 transform is called once per
\* yielded batch, in batch order, never with an empty list, and when encode
\* returns every selected document with text was passed exactly once; with no
\* selected document with text transform is not called.
C6_TransformOncePerBatch ==
  (Running /\ locals.batch_size >= 1) =>
    /\ Len(calls) = Len(yielded)
    /\ \A b \in 1 .. Len(calls) :
         /\ Len(calls[b]) >= 1
         /\ calls[b] = [j \in 1 .. Len(yielded[b]) |-> text[yielded[b][j]]]
    /\ IsPrefix(Flatten(yielded), filtered_docs)
    /\ \A d \in DocIds : TimesYielded(d) <= 1
    /\ pc = "returned" =>
         \A d \in DocIds :
           TimesYielded(d) = IF d \in SeqSet(Selected) /\ text[d] # None THEN 1 ELSE 0
    /\ (\A d \in SeqSet(Selected) : text[d] = None) => calls = << >>

\* C6 witness: an encode returned after two calls of transform, having skipped a
\* selected document without text
C6_Witness ==
  /\ ReturnedPositive
  /\ Len(calls) = 2
  /\ \E d \in SeqSet(Selected) : text[d] = None

\* C7: encode called with docs None or empty is a no-op: it returns without
\* resolving the request parameters, without a call of transform, and with every
\* document and every attribute of the encoder as they were; only a call with
\* non-empty docs reaches the loop.
C7_FalsyDocsNoOp ==
  [][ /\ (pc # "loop" /\ pc' = "loop") => (docs_given /\ Len(docs) > 0)
      /\ (pc # "loop" /\ pc' = "returned") =>
           /\ ~ (docs_given /\ Len(docs) > 0)
           /\ DOMAIN locals' = {}
           /\ calls' = << >>
           /\ yielded' = << >>
           /\ encode_raised' = ""
           /\ embedding' = embedding
           /\ text' = text
           /\ docs' = docs
           /\ self' = self ]_vars

\* C7 witness: an encode called with an empty DocumentArray and with both
\* parameters returned
C7_Witness ==
  /\ pc = "returned"
  /\ docs_given
  /\ docs = << >>
  /\ DOMAIN parameters = {"batch_size", "traversal_path"}
  /\ DOMAIN locals = {}

\* C8: with batch_size = 0 and a non-empty request encode never returns
\* normally: it raises when the first batch is asked for, with no call of
\* transform and no embedding written; with a negative batch_size no batch is
\* yielded, nothing is raised and no embedding is written.
C8_BatchSizeEdge ==
  Running =>
    /\ locals.batch_size = 0 =>
         /\ pc # "returned"
         /\ calls = << >>
         /\ yielded = << >>
         /\ embedding = embBefore
         /\ (pc = "raised" => encode_raised = "ValueError")
    /\ locals.batch_size < 0 =>
         /\ pc # "raised"
         /\ encode_raised = ""
         /\ calls = << >>
         /\ yielded = << >>
         /\ embedding = embBefore
    /\ pc = "raised" => locals.batch_size = 0

\* C8 witness: an encode with batch size 0 over documents with text raised
C8_Witness ==
  /\ Running
  /\ pc = "raised"
  /\ encode_raised = "ValueError"
  /\ locals.batch_size = 0
  /\ Len(filtered_docs) >= 2

\* C9: in every step of every encode the text of every document, the documents
\* of the request and every attribute of the encoder stay as they are, an
\* embedding changes only on a document the traversal path selected, and a
\* request that omits a parameter gets the constructor's default whatever the
\* requests before it carried.
C9_EncodeFrame ==
  [][ (constructed = "yes" /\ docs_given' = docs_given) =>
        /\ self' = self
        /\ text' = text
        /\ docs' = docs
        /\ \A d \in DocIds :
             embedding'[d] # embedding[d] =>
               /\ pc = "loop"
               /\ \E j \in 1 .. Len(docs) :
                    IF locals.traversal_path = "r" THEN d = docs[j]
                    ELSE docs[j] = 1 /\ d = ChunkDoc
        /\ (pc # "loop" /\ pc' = "loop") =>
             /\ "batch_size" \notin DOMAIN parameters' =>
                  locals'.batch_size = self.default_batch_size
             /\ "traversal_path" \notin DOMAIN parameters' =>
                  locals'.traversal_path = self.default_traversal_path ]_vars

\* C9 witness: a request without parameters returned, having embedded the
\* documents of the default path next to documents that an earlier request with
\* another traversal path had embedded
C9_Witness ==
  /\ ReturnedPositive
  /\ DOMAIN parameters = {}
  /\ \E d \in DocIds \ SeqSet(Selected) : embedding[d] # NoEmbedding
  /\ \E d \in SeqSet(Selected) : embedding[d] # embBefore[d]

\* C10: with a transform that computes each row from its own text, the
\* embeddings an encode leaves are those any other batch size >= 1 would have
\* left, and an encode of the same documents again, with any batch size >= 1,
\* leaves every embedding as it is.
C10_BatchSizeIndependent ==
  ReturnedPositive =>
    \A b \in 1 .. (MaxDocs + 1) :
      /\ EncodeResult(embBefore, docs, text, locals.traversal_path, b,
                      self.tfidf_vectorizer) = embedding
      /\ EncodeResult(embedding, docs, text, locals.traversal_path, b,
                      self.tfidf_vectorizer) = embedding

\* C10 witness: an encode in two batches of documents with different texts
\* returned, and one with another batch size had embedded them before: no
\* embedding changed
C10_Witness ==
  /\ ReturnedPositive
  /\ Len(yielded) = 2
  /\ Len(yielded[1]) = 2
  /\ text[yielded[1][1]] # text[yielded[1][2]]
  /\ embedding = embBefore
  /\ \A d \in SeqSet(filtered_docs) : embedding[d] # NoEmbedding

====
